---- MODULE Spec2Model ----
(***************************************************************************)
(* Model of the slot-based consistent hash ring of cache_proxy             *)
(* (src/src/hash_ring/ring.rs) and of its topology manager                 *)
(* (src/src/manager.rs, ring.rs, slot.rs, lib.rs).                         *)
(* The ring is a Vec<Slot<T>> plus a capacity                              *)
(* and a version, all u64.  The model keeps the integer width: W bits      *)
(* stand for the 64 bits of u64/usize, so that checked_mul, the additions  *)
(* of add/rebalance and the subtraction of get_replicas overflow where the *)
(* code's do.  An overflowing +,- panics in a debug build and wraps in a   *)
(* release build; the build is chosen once, in Init.                       *)
(***************************************************************************)
EXTENDS Integers, Sequences, FiniteSets, TLC

VARIABLES slots, capacity, version, build, pc, last, rt,
          manager, topology, reader,
          nodelist, mutex, threads, serial

\* the ring under test (hash_ring::Ring) and the calls made on it
ringVars == <<slots, capacity, version, build, pc, last, rt>>

\* the topology manager (manager.rs): the manager loop, its ProxyTopology
\* and a reader of the topology
mgrVars == <<manager, topology, reader>>

\* a NodeList (node.rs) shared by threads: the vector behind its mutex, the
\* holder of the mutex and the calls of the threads; `serial` is the vector
\* that the calls give when each is applied whole, in the order in which
\* they took the mutex
listVars == <<nodelist, mutex, threads, serial>>

vars == <<slots, capacity, version, build, pc, last, rt,
          manager, topology, reader,
          nodelist, mutex, threads, serial>>

(* ---------------------------- bounds ---------------------------------- *)

\* number of bits standing for the 64 bits of u64 / usize
W == 4
\* node identifiers are 1..MaxNode
MaxNode == 2
\* the model stops adding slots at this length
MaxSlots == 3
\* a new call starts only while version < MaxVersion
MaxVersion == 5
\* longest node list handed to batch_add / batch_remove
MaxBatch == 2
\* the lookups draw the hash of their key from 0..MaxHash
MaxHash == 6
MaxTick == 2
MaxUpdate == 2
MaxList == 2

MaxU == 2^W - 1
NodeIds == 1..MaxNode
Hashes == 0..MaxHash
InitCaps == {0, 1, 2, MaxU \div 2, MaxU}
Builds == {"debug", "release"}

(* --------------------- u64 arithmetic of the build -------------------- *)

WAdd(a, b) == (a + b) % (MaxU + 1)
WSub(a, b) == (a - b + MaxU + 1) % (MaxU + 1)
AddOverflows(a, b) == a + b > MaxU
SubOverflows(a, b) == a < b

\* Option<T>: None is the empty sequence, Some(x) the one-element sequence
None == << >>
Some(x) == << x >>

Min(a, b) == IF a < b THEN a ELSE b

(* ------------------------------ Slot ---------------------------------- *)

Slot(s, e, node) == [start |-> s, end |-> e, inner |-> node]

\* PartialEq for Slot compares start and end only
SlotEq(a, b) == a.start = b.start /\ a.end = b.end

(* ------------------------------ Ring ---------------------------------- *)

Ring(sl, cap, ver) == [slots |-> sl, capacity |-> cap, version |-> ver]

\* the value an operation hands back: the ring it leaves, the Option it
\* returns (ret) or the bool it returns (ok), how the call ended (out) and
\* whether an expand or a rebalance run by the call returned false (failed)
Res(r, ret, ok, out, failed) ==
    [r |-> r, ret |-> ret, ok |-> ok, out |-> out, failed |-> failed]

Returned(r, ret, ok) == Res(r, ret, ok, "returned", FALSE)
Panicked(r) == Res(r, None, FALSE, "panicked", FALSE)

\* self.version += 1
VersionOverflows(r, b) == b = "debug" /\ AddOverflows(r.version, 1)
\* the version is left as it was
BumpVersionForgotten(r) == r

BumpVersion(r) == [r EXCEPT !.version = WAdd(r.version, 1)]

\* the loop `for slot in self.slots.iter_mut()` of rebalance and expand,
\* from slot i (1-based) on, with the running `start`
RECURSIVE RelayFrom(_, _, _, _, _)
RelayFrom(sl, i, start, q, b) ==
    IF i > Len(sl) THEN [slots |-> sl, panic |-> FALSE]
    ELSE LET s1 == [sl EXCEPT ![i].start = start]
         IN  IF AddOverflows(start, q) /\ b = "debug"
             THEN [slots |-> s1, panic |-> TRUE]
             ELSE LET next == WAdd(start, q)
                  IN  IF SubOverflows(next, 1) /\ b = "debug"
                      THEN [slots |-> s1, panic |-> TRUE]
                      ELSE RelayFrom([s1 EXCEPT ![i].end = WSub(next, 1)],
                                     i + 1, next, q, b)

\* the re-lay without `last_slot.end = self.capacity`
RelayWithoutLastEnd(r, b) ==
    LET q   == r.capacity \div Len(r.slots)
        lay == RelayFrom(r.slots, 1, 1, q, b)
    IN  IF lay.panic
        THEN Panicked([r EXCEPT !.slots = lay.slots])
        ELSE Returned([r EXCEPT !.slots = lay.slots], None, TRUE)

\* the body shared by rebalance and expand after the capacity is settled
Relay(r, b) ==
    LET q   == r.capacity \div Len(r.slots)
        lay == RelayFrom(r.slots, 1, 1, q, b)
    IN  IF lay.panic
        THEN Panicked([r EXCEPT !.slots = lay.slots])
        ELSE Returned([r EXCEPT !.slots =
                          [lay.slots EXCEPT ![Len(lay.slots)].end = r.capacity]],
                      None, TRUE)

\* rebalance that counts the call in the version before it looks at the
\* slot list
rebalance_bump_first(r, b) ==
    IF VersionOverflows(r, b) THEN Panicked(r)
    ELSE IF r.slots = << >> THEN Returned(BumpVersion(r), None, FALSE)
    ELSE Relay(BumpVersion(r), b)

rebalance(r, b) ==
    IF r.slots = << >> THEN Returned(r, None, FALSE)
    ELSE IF VersionOverflows(r, b) THEN Panicked(r)
    ELSE Relay(BumpVersion(r), b)

\* expand that doubles the capacity and moves only the end of the last slot
expand_without_relay(r, b) ==
    IF r.slots = << >> THEN Returned(r, None, FALSE)
    ELSE IF VersionOverflows(r, b) THEN Panicked(r)
    ELSE LET r1 == BumpVersion(r)
         IN  IF r1.capacity * 2 > MaxU
             THEN Returned(r1, None, FALSE)
             ELSE Returned([r1 EXCEPT !.capacity = r1.capacity * 2,
                                      !.slots[Len(r1.slots)].end = r1.capacity * 2],
                           None, TRUE)

\* expand with saturating_mul in place of checked_mul
expand_saturating(r, b) ==
    IF r.slots = << >> THEN Returned(r, None, FALSE)
    ELSE IF VersionOverflows(r, b) THEN Panicked(r)
    ELSE LET r1 == BumpVersion(r)
         IN  Relay([r1 EXCEPT !.capacity =
                       IF r1.capacity * 2 > MaxU THEN MaxU ELSE r1.capacity * 2], b)

expand(r, b) ==
    IF r.slots = << >> THEN Returned(r, None, FALSE)
    ELSE IF VersionOverflows(r, b) THEN Panicked(r)
    ELSE LET r1 == BumpVersion(r)
         IN  IF r1.capacity * 2 > MaxU
             THEN Returned(r1, None, FALSE)
             ELSE Relay([r1 EXCEPT !.capacity = r1.capacity * 2], b)

slots_clear_bumping(r) ==
    [r EXCEPT !.slots = << >>, !.version = WAdd(r.version, 1)]

slots_clear(r) == [r EXCEPT !.slots = << >>]

(* ------------------------------- add ---------------------------------- *)

\* RING_LOAD = 0.75, written as a fraction
RING_LOAD_NUM == 3
RING_LOAD_DEN == 4
\* `RING_LOAD as usize`: the cast binds tighter than `*` and truncates the
\* f64 towards zero before the multiplication
RingLoadAsUsize == RING_LOAD_NUM \div RING_LOAD_DEN

\* the condition of `while self.slots.len() >= self.capacity as usize *
\* RING_LOAD as usize && must`
LoopCond(r, must) == Len(r.slots) >= r.capacity * RingLoadAsUsize /\ must

\* key of max_by_key: slot.end - slot.start
RangeKey(s) == WSub(s.end, s.start)

\* Iterator::max_by_key returns the LAST element of maximal key
MaxByKeyIndex(sl) ==
    CHOOSE i \in 1..Len(sl) :
        /\ \A j \in 1..Len(sl) : RangeKey(sl[j]) <= RangeKey(sl[i])
        /\ \A j \in (i + 1)..Len(sl) : RangeKey(sl[j]) < RangeKey(sl[i])

\* Vec::insert(i, x) with a 0-based i
Insert(sl, i, x) == SubSeq(sl, 1, i) \o << x >> \o SubSeq(sl, i + 1, Len(sl))
\* Vec::remove(i) with a 0-based i
RemoveAt(sl, i) == SubSeq(sl, 1, i) \o SubSeq(sl, i + 2, Len(sl))

\* add_split that gives the new node the lower half of the slot
add_split_lower_half(r, node, must, b) ==
    LET index == MaxByKeyIndex(r.slots)
        s     == r.slots[index]
    IN  IF b = "debug" /\ AddOverflows(s.start, s.end)
        THEN Panicked(r)
        ELSE LET mid_point == WAdd(s.start, s.end) \div 2
                 kept_slot == Slot(WAdd(mid_point, 1), s.end, s.inner)
                 r1 == [r EXCEPT !.slots =
                           Insert([r.slots EXCEPT
                                      ![index] = Slot(s.start, mid_point, node)],
                                  index, kept_slot)]
             IN  IF must
                 THEN LET rb == rebalance(r1, b)
                      IN  IF rb.out = "panicked" THEN rb
                          ELSE IF ~rb.ok
                               THEN Res(rb.r, None, FALSE, "returned", TRUE)
                               ELSE Returned(rb.r, Some(node), TRUE)
                 ELSE Returned(r1, Some(node), TRUE)

\* add from "Find the slot with the largest range" to the end
add_split(r, node, must, b) ==
    LET index == MaxByKeyIndex(r.slots)
        s     == r.slots[index]
        under == b = "debug" /\
                (\E j \in 1..Len(r.slots) :
                     SubOverflows(r.slots[j].end, r.slots[j].start))
    IN  IF under \/ (b = "debug" /\ AddOverflows(s.start, s.end))
        THEN Panicked(r)
        ELSE LET mid_point == WAdd(s.start, s.end) \div 2
                 new_slot  == Slot(WAdd(mid_point, 1), s.end, node)
                 r1 == [r EXCEPT !.slots =
                           Insert([r.slots EXCEPT ![index].end = mid_point],
                                  index, new_slot)]
             IN  IF must
                 THEN LET rb == rebalance(r1, b)
                      IN  IF rb.out = "panicked" THEN rb
                          ELSE IF ~rb.ok
                               THEN Res(rb.r, None, FALSE, "returned", TRUE)
                               ELSE Returned(rb.r, Some(node), TRUE)
                 ELSE Returned(r1, Some(node), TRUE)

\* add without `if self.slots.len() >= self.capacity as usize { return None; }`
add_without_full_check(r, node, must, b) ==
    IF VersionOverflows(r, b) THEN Panicked(r)
    ELSE LET r1 == BumpVersion(r)
         IN  IF r1.slots = << >>
             THEN Returned([r1 EXCEPT !.slots = << Slot(1, r1.capacity, node) >>],
                           Some(node), TRUE)
             ELSE IF LoopCond(r1, must)
                  THEN Res(r1, None, FALSE, "looping", FALSE)
                  ELSE add_split(r1, node, must, b)

\* add up to the while loop; out = "looping" when the loop is entered
add(r, node, must, b) ==
    IF Len(r.slots) >= r.capacity THEN Returned(r, None, FALSE)
    ELSE IF VersionOverflows(r, b) THEN Panicked(r)
    ELSE LET r1 == BumpVersion(r)
         IN  IF r1.slots = << >>
             THEN Returned([r1 EXCEPT !.slots = << Slot(1, r1.capacity, node) >>],
                           Some(node), TRUE)
             ELSE IF LoopCond(r1, must)
                  THEN Res(r1, None, FALSE, "looping", FALSE)
                  ELSE add_split(r1, node, must, b)

\* `for node in nodes { self.add(node, false).map(|n| success_nodes.push(n)); }`
RECURSIVE AddEach(_, _, _, _)
AddEach(r, nodes, acc, b) ==
    IF nodes = << >> THEN Returned(r, acc, TRUE)
    ELSE LET a == add(r, Head(nodes), FALSE, b)
         IN  IF a.out = "panicked" THEN a
             ELSE AddEach(a.r, Tail(nodes), acc \o a.ret, b)

\* batch_add after its capacity check
batch_add_rest(r, nodes, must, b, failed) ==
    LET a == AddEach(r, nodes, << >>, b)
    IN  IF a.out = "panicked" THEN a
        ELSE IF must
             THEN LET rb == rebalance(a.r, b)
                  IN  IF rb.out = "panicked" THEN rb
                      ELSE Res(rb.r, Some(a.ret), TRUE, "returned",
                               failed \/ ~rb.ok)
             ELSE Res(a.r, Some(a.ret), TRUE, "returned", failed)

batch_add(r, nodes, must, b) ==
    IF must /\ Len(r.slots) + Len(nodes) > r.capacity
    THEN LET e == expand(r, b)
         IN  IF e.out = "panicked" THEN e
             ELSE IF ~e.ok THEN Res(e.r, None, FALSE, "returned", TRUE)
             ELSE LET rb == rebalance(e.r, b)
                  IN  IF rb.out = "panicked" THEN rb
                      ELSE IF ~rb.ok
                           THEN Res(rb.r, None, FALSE, "returned", TRUE)
                           ELSE batch_add_rest(rb.r, nodes, must, b, FALSE)
    ELSE IF Len(r.slots) + Len(nodes) > r.capacity
         THEN Returned(r, None, FALSE)
         ELSE batch_add_rest(r, nodes, must, b, FALSE)

(* ------------------------------ remove -------------------------------- *)

\* index is 0-based, as in the code
\* remove_by_index that gives the removed range to nobody
remove_by_index_no_merge(r, index, must, b) ==
    IF index >= Len(r.slots) THEN Returned(BumpVersion(r), None, FALSE)
    ELSE Returned([BumpVersion(r) EXCEPT !.slots = RemoveAt(r.slots, index)],
                  Some(r.slots[index + 1].inner), TRUE)

remove_by_index(r, index, must, b) ==
    IF VersionOverflows(r, b) THEN Panicked(r)
    ELSE LET r1 == BumpVersion(r)
         IN  IF index >= Len(r1.slots) THEN Returned(r1, None, FALSE)
             ELSE LET removed_slot == r1.slots[index + 1]
                      rest   == RemoveAt(r1.slots, index)
                      merged == IF index > 0
                                THEN [rest EXCEPT ![index].end = removed_slot.end]
                                ELSE IF Len(rest) > 0
                                     THEN [rest EXCEPT ![1].start = removed_slot.start]
                                     ELSE rest
                      r2 == [r1 EXCEPT !.slots = merged]
                  IN  IF must
                      THEN LET rb == rebalance(r2, b)
                           IN  IF rb.out = "panicked" THEN rb
                               ELSE IF ~rb.ok
                                    THEN Res(rb.r, None, FALSE, "returned", TRUE)
                                    ELSE Returned(rb.r, Some(removed_slot.inner), TRUE)
                      ELSE Returned(r2, Some(removed_slot.inner), TRUE)

\* position that counts the slots from 1
PositionFromOne(sl, node) ==
    IF \E i \in 1..Len(sl) : sl[i].inner = node
    THEN Some(CHOOSE i \in 1..Len(sl) :
                  /\ sl[i].inner = node
                  /\ \A j \in 1..(i - 1) : sl[j].inner # node)
    ELSE None

\* self.slots.iter().position(|slot| slot.inner == node), 0-based, as Option
Position(sl, node) ==
    IF \E i \in 1..Len(sl) : sl[i].inner = node
    THEN Some((CHOOSE i \in 1..Len(sl) :
                  /\ sl[i].inner = node
                  /\ \A j \in 1..(i - 1) : sl[j].inner # node) - 1)
    ELSE None

\* remove that goes to remove_by_index even when the node owns no slot
remove_without_check(r, node, must, b) ==
    LET index   == Position(r.slots, node)
        removed == remove_by_index(r, IF index = None THEN Len(r.slots)
                                      ELSE index[1], FALSE, b)
    IN  IF removed.out = "panicked" THEN removed
        ELSE IF removed.ret = None THEN Returned(removed.r, None, FALSE)
        ELSE IF must
             THEN LET rb == rebalance(removed.r, b)
                  IN  IF rb.out = "panicked" THEN rb
                      ELSE Res(rb.r, Some(node), TRUE, "returned", ~rb.ok)
             ELSE Returned(removed.r, Some(node), TRUE)

remove(r, node, must, b) ==
    LET index == Position(r.slots, node)
    IN  IF index = None THEN Returned(r, None, FALSE)
        ELSE LET removed == remove_by_index(r, index[1], FALSE, b)
             IN  IF removed.out = "panicked" THEN removed
                 ELSE IF removed.ret = None THEN Returned(removed.r, None, FALSE)
                 ELSE IF must
                      THEN LET rb == rebalance(removed.r, b)
                           IN  IF rb.out = "panicked" THEN rb
                               ELSE Res(rb.r, Some(node), TRUE, "returned", ~rb.ok)
                      ELSE Returned(removed.r, Some(node), TRUE)

\* nodes.iter().filter_map(|node| position of node).collect()
RECURSIVE FilterMapPosition(_, _)
FilterMapPosition(sl, nodes) ==
    IF nodes = << >> THEN << >>
    ELSE Position(sl, Head(nodes)) \o FilterMapPosition(sl, Tail(nodes))

\* insertion into a descending sequence
RECURSIVE InsertDesc(_, _)
InsertDesc(sorted, x) ==
    IF sorted = << >> THEN << x >>
    ELSE IF x >= Head(sorted) THEN << x >> \o sorted
    ELSE << Head(sorted) >> \o InsertDesc(Tail(sorted), x)

\* indexes_to_remove.sort_unstable_by(|a, b| b.cmp(a))
RECURSIVE SortDesc(_)
SortDesc(xs) ==
    IF xs = << >> THEN << >> ELSE InsertDesc(SortDesc(Tail(xs)), Head(xs))

\* `for index in indexes_to_remove { self.remove_by_index(index, false)... }`
RECURSIVE RemoveEach(_, _, _, _)
RemoveEach(r, indexes, acc, b) ==
    IF indexes = << >> THEN Returned(r, acc, TRUE)
    ELSE LET x == remove_by_index(r, Head(indexes), FALSE, b)
         IN  IF x.out = "panicked" THEN x
             ELSE RemoveEach(x.r, Tail(indexes), acc \o x.ret, b)

batch_remove(r, nodes, must, b) ==
    LET indexes_to_remove == SortDesc(FilterMapPosition(r.slots, nodes))
        x == RemoveEach(r, indexes_to_remove, << >>, b)
    IN  IF x.out = "panicked" THEN x
        ELSE IF must
             THEN LET rb == rebalance(x.r, b)
                  IN  IF rb.out = "panicked" THEN rb
                      ELSE IF ~rb.ok
                           THEN Res(rb.r, None, FALSE, "returned", TRUE)
                           ELSE Returned(rb.r, Some(x.ret), TRUE)
             ELSE Returned(x.r, Some(x.ret), TRUE)

(* ------------------------------ lookup -------------------------------- *)

SortedByStart(sl) ==
    \A i \in 1..Len(sl) : \A j \in (i + 1)..Len(sl) : sl[i].start < sl[j].start

\* self.slots.binary_search_by(|slot| slot.start.cmp(&idx)): Ok(i) (0-based)
\* for a slot whose start is idx, else Err(insertion point).  On a slice that
\* is not sorted the result is unspecified: any Ok of a match, any Err.
BinarySearch(sl, idx) ==
    LET matches == {i \in 1..Len(sl) : sl[i].start = idx}
        oks     == {[ok |-> TRUE, index |-> i - 1] : i \in matches}
    IN  IF SortedByStart(sl)
        THEN IF matches # {} THEN oks
             ELSE {[ok |-> FALSE,
                    index |-> Cardinality({i \in 1..Len(sl) : sl[i].start < idx})]}
        ELSE oks \cup {[ok |-> FALSE, index |-> p] : p \in 0..Len(sl)}

\* the slot get_slot picks for one result of the binary search
SlotOfSearch(sl, bs) ==
    IF bs.ok THEN sl[bs.index + 1]
    ELSE IF bs.index = 0 THEN sl[Len(sl)]
    ELSE sl[bs.index]

\* get_slot that searches for (hash mod capacity) + 1
get_slot_plus_one(r, h) ==
    IF r.slots = << >> THEN {None}
    ELSE LET idx == (h % r.capacity) + 1
         IN  {Some(SlotOfSearch(r.slots, bs)) : bs \in BinarySearch(r.slots, idx)}

\* the set of values get_slot can return for a key of hash h
get_slot(r, h) ==
    IF r.slots = << >> THEN {None}
    ELSE LET idx == h % r.capacity
         IN  {Some(SlotOfSearch(r.slots, bs)) : bs \in BinarySearch(r.slots, idx)}

\* self.get_slot(key).map(|slot| slot.inner())
get_node(r, h) ==
    {IF s = None THEN None ELSE Some(s[1].inner) : s \in get_slot(r, h)}

\* self.slots.iter().cycle().skip(skip).take(n).collect()
CycleSkipTake(sl, skip, n) ==
    [k \in 1..n |-> sl[((skip + k - 1) % Len(sl)) + 1]]

\* what get_replicas does with one result of the binary search
ReplicasOfSearch(sl, bs, n, b) ==
    IF bs.ok
    THEN [ret |-> Some(CycleSkipTake(sl, bs.index, n)), out |-> "returned"]
    ELSE IF SubOverflows(bs.index, 1) /\ b = "debug"
         THEN [ret |-> None, out |-> "panicked"]
         ELSE [ret |-> Some(CycleSkipTake(sl, WSub(bs.index, 1), n)),
               out |-> "returned"]

\* the set of outcomes of get_replicas for a key of hash h
get_replicas(r, h, n, b) ==
    IF r.slots = << >> THEN {[ret |-> None, out |-> "returned"]}
    ELSE IF n > Len(r.slots) THEN {[ret |-> Some(r.slots), out |-> "returned"]}
    ELSE LET idx == h % r.capacity
         IN  {ReplicasOfSearch(r.slots, bs, n, b) : bs \in BinarySearch(r.slots, idx)}

(* --------------------------- the program ------------------------------ *)

cur == Ring(slots, capacity, version)

\* the record of the last call: its name, the arguments of an add (node,
\* must) or of a batch call (nodes, must), and its result: ret for an
\* Option<T>, rets for an Option<Vec<T>>, slot for an Option<&Slot>, reps for
\* an Option<Vec<&Slot>>, ok for a bool
Call(op) ==
    [op |-> op, node |-> 0, index |-> 0, nodes |-> << >>, must |-> FALSE,
     ret |-> None,
     rets |-> None, slot |-> None, reps |-> None, ok |-> FALSE,
     out |-> "returned", failed |-> FALSE]

\* no call is running and none has just returned
NoCall == Call("none")

NodeOps == {"add", "remove", "remove_by_index", "get_node"}
BatchOps == {"batch_add", "batch_remove"}
LookupOps == {"get_slot", "get_node", "get_replicas"}

\* the add / remove / rebalance sequence being followed, with the ring it
\* started from; `cleared` says that the sequence began right after a
\* slots_clear
NoTrack == [stage |-> 0, x |-> 0, slots |-> << >>, capacity |-> 0,
            version |-> 0, cleared |-> FALSE]

NodeLists == UNION {[1..k -> NodeIds] : k \in 0..MaxBatch}

\* a program that only exercises the ring builds no manager
NoManager == [pc |-> "none", ticks |-> 0, branch |-> "none", result |-> "none"]
NoTopology == None
NoReader == [pc |-> "none", slot_mapping |-> None, hash_ring |-> None]

\* a program without a shared NodeList
NoNodeList ==
    /\ nodelist = << >>
    /\ mutex = None
    /\ threads = << >>
    /\ serial = << >>

Init ==
    /\ slots = << >>
    /\ capacity \in InitCaps
    /\ version = 0
    /\ build \in Builds
    /\ pc = "idle"
    /\ last = Call("new")
    /\ rt = NoTrack
    /\ manager = NoManager
    /\ topology = NoTopology
    /\ reader = NoReader
    /\ NoNodeList

CanCall == pc = "idle" /\ version < MaxVersion

\* the call leaves the ring res.r and the result of res in `last`; a call
\* that returns is "done" until Return hands the result to the caller
Finish(res, call) ==
    /\ slots' = res.r.slots
    /\ capacity' = res.r.capacity
    /\ version' = res.r.version
    /\ last' = [call EXCEPT !.ret = IF call.op \in NodeOps THEN res.ret ELSE None,
                            !.rets = IF call.op \in BatchOps THEN res.ret ELSE None,
                            !.slot = IF call.op = "get_slot" THEN res.ret ELSE None,
                            !.reps = IF call.op = "get_replicas" THEN res.ret ELSE None,
                            !.ok = res.ok,
                            !.out = IF res.out = "looping" THEN "running" ELSE res.out,
                            !.failed = call.failed \/ res.failed]
    /\ pc' = CASE res.out = "panicked" -> "panic"
               [] res.out = "looping" -> "add_loop"
               [] OTHER -> "done"
    /\ UNCHANGED build
    /\ UNCHANGED mgrVars
    /\ UNCHANGED listVars

Add(node, must) ==
    /\ CanCall
    /\ Len(slots) < MaxSlots
    /\ Finish(add(cur, node, must, build),
              [Call("add") EXCEPT !.node = node, !.must = must])
    /\ rt' = IF must THEN NoTrack
             ELSE [stage |-> 1, x |-> node, slots |-> slots,
                   capacity |-> capacity, version |-> version,
                   cleared |-> rt.cleared /\ rt.stage = 0]

\* one turn of the while loop of add, or the rest of add once it is left
AddLoop ==
    /\ pc = "add_loop"
    /\ Finish(IF LoopCond(cur, last.must)
              THEN LET e == expand(cur, build)
                   IN  IF e.out = "panicked" THEN e
                       ELSE Res(e.r, None, FALSE, "looping", ~e.ok)
              ELSE add_split(cur, last.node, last.must, build),
              last)
    /\ UNCHANGED rt

BatchAdd(nodes, must) ==
    /\ CanCall
    /\ Len(slots) + Len(nodes) <= MaxSlots
    /\ Finish(batch_add(cur, nodes, must, build),
              [Call("batch_add") EXCEPT !.nodes = nodes, !.must = must])
    /\ rt' = NoTrack

Remove(node, must) ==
    /\ CanCall
    /\ Finish(remove(cur, node, must, build),
              [Call("remove") EXCEPT !.node = node, !.must = must])
    /\ rt' = IF rt.stage = 1 /\ rt.x = node /\ ~must
             THEN [rt EXCEPT !.stage = 2, !.cleared = FALSE] ELSE NoTrack

RemoveByIndex(index, must) ==
    /\ CanCall
    /\ Finish(remove_by_index(cur, index, must, build),
              [Call("remove_by_index") EXCEPT !.index = index, !.must = must])
    /\ rt' = NoTrack

BatchRemove(nodes, must) ==
    /\ CanCall
    /\ Finish(batch_remove(cur, nodes, must, build),
              [Call("batch_remove") EXCEPT !.nodes = nodes, !.must = must])
    /\ rt' = NoTrack

Rebalance ==
    /\ CanCall
    /\ Finish(rebalance(cur, build), Call("rebalance"))
    /\ rt' = IF rt.stage = 2 THEN [rt EXCEPT !.stage = 3] ELSE NoTrack

Expand ==
    /\ CanCall
    /\ Finish(expand(cur, build), Call("expand"))
    /\ rt' = NoTrack

SlotsClear ==
    /\ CanCall
    /\ Finish(Returned(slots_clear(cur), None, TRUE), Call("slots_clear"))
    /\ rt' = [NoTrack EXCEPT !.cleared = TRUE]

GetSlot(h) ==
    /\ pc = "idle"
    /\ \E ret \in get_slot(cur, h) :
          Finish(Returned(cur, ret, TRUE), Call("get_slot"))
    /\ rt' = NoTrack

GetNode(h) ==
    /\ pc = "idle"
    /\ \E ret \in get_node(cur, h) :
          Finish(Returned(cur, ret, TRUE), Call("get_node"))
    /\ rt' = NoTrack

GetReplicas(h, n) ==
    /\ pc = "idle"
    /\ \E o \in get_replicas(cur, h, n, build) :
          Finish(Res(cur, o.ret, TRUE, o.out, FALSE), Call("get_replicas"))
    /\ rt' = NoTrack

\* the call has returned: its caller has the result and the ring is ready
\* for the next call
Return ==
    /\ pc = "done"
    /\ pc' = "idle"
    /\ last' = NoCall
    /\ UNCHANGED <<slots, capacity, version, build, rt>>
    /\ UNCHANGED mgrVars
    /\ UNCHANGED listVars

\* the operations on one node or on the whole ring
NextSingle ==
    \/ \E node \in NodeIds, must \in BOOLEAN : Add(node, must)
    \/ AddLoop
    \/ \E node \in NodeIds, must \in BOOLEAN : Remove(node, must)
    \/ \E index \in 0..MaxSlots, must \in BOOLEAN : RemoveByIndex(index, must)
    \/ Rebalance
    \/ Expand
    \/ SlotsClear
    \/ Return

SingleSpec == Init /\ [][NextSingle]_vars

\* the operations on a list of nodes
NextBatch ==
    \/ \E nodes \in NodeLists, must \in BOOLEAN : BatchAdd(nodes, must)
    \/ \E nodes \in NodeLists, must \in BOOLEAN : BatchRemove(nodes, must)

\* every operation that changes the ring
Next ==
    \/ NextSingle
    \/ NextBatch

Spec == Init /\ [][Next]_vars

\* a call that is running keeps running
FairSpec == SingleSpec /\ WF_vars(AddLoop)

\* the rings that add, rebalance and expand build, for the lookups
NextBuild ==
    \/ \E node \in NodeIds : Add(node, FALSE)
    \/ Rebalance
    \/ Expand
    \/ Return

\* get_slot on those rings
NextLookup ==
    \/ NextBuild
    \/ \E h \in Hashes : GetSlot(h)

LookupSpec == Init /\ [][NextLookup]_vars

\* get_replicas on those rings
NextReplicas ==
    \/ NextBuild
    \/ \E h \in Hashes, n \in 0..(MaxSlots + 1) : GetReplicas(h, n)

ReplicasSpec == Init /\ [][NextReplicas]_vars

\* every lookup, on the rings that add, rebalance, expand and slots_clear
\* leave
NextQuery ==
    \/ NextBuild
    \/ SlotsClear
    \/ \E h \in Hashes : GetSlot(h)
    \/ \E h \in Hashes : GetNode(h)
    \/ \E h \in Hashes, n \in 0..(MaxSlots + 1) : GetReplicas(h, n)

QuerySpec == Init /\ [][NextQuery]_vars

TypeOK ==
    /\ capacity \in 0..MaxU
    /\ version \in 0..MaxU
    /\ pc \in {"idle", "add_loop", "panic", "done"}
    /\ Len(slots) <= MaxSlots

(* ======================= the topology manager ========================= *)

\* SLOT_SIZE of slot.rs: the number of slots of SlotMapping::default()
SLOT_SIZE == 1024

\* Slot::new of slot.rs
MappingSlot(id, backend_node_id) ==
    [id |-> id, backend_node_id |-> backend_node_id, is_migrating |-> FALSE]

\* SlotMapping::default(): SLOT_SIZE slots of backend node 0.  The field of
\* a SlotMapping is private and default() is its only constructor, so every
\* slot mapping has this content; `obj` tells the objects apart (the n-th
\* SlotMapping the program has created)
SlotMapping_default(obj) ==
    [obj |-> obj, inner |-> [i \in 1..SLOT_SIZE |-> MappingSlot(i - 1, 0)]]

\* SlotMapping::inner(): a clone of the vector
SlotMapping_inner(m) == m.inner

\* HashRing::new(slots) of ring.rs: the slots are added to a fresh ring of
\* the hashring crate, and the version is 0
HashRing_new(slots_) ==
    [version |-> 0, inner |-> {slots_[i] : i \in DOMAIN slots_}]

\* NodeList::new()
NodeList_new == << >>

\* the node lists handed to init
InitNodeLists == {NodeList_new, <<1>>}

Configs == [slot_size : {1, SLOT_SIZE}, time_period : {0, 1}]

\* ProxyTopology::new(config).  `built_from` is the slot mapping the
\* hash ring was built from, `made` the number of SlotMappings created so
\* far, and `upd` the position of update_slot_mapping / init, which hold
\* the topology by &mut self
ProxyTopology_new(config) ==
    [hash_ring    |-> HashRing_new(SlotMapping_inner(SlotMapping_default(0))),
     built_from   |-> 0,
     slot_mapping |-> SlotMapping_default(0),
     node_list    |-> NodeList_new,
     slot_size    |-> config.slot_size,
     time_period  |-> config.time_period,
     made         |-> 0,
     upd          |-> [at |-> "idle", by |-> "none", node_list |-> << >>]]

\* update_metadata: its result is an anyhow::Result<()>.  The body in the
\* repository logs a warning and returns Ok(()): the read of the metadata
\* store it stands for is commented out.  The Err result is the store-level
\* error of the specification, which start and start_cache_proxy both have
\* code for
update_metadata == {"Ok", "Err"}

\* the ring variables of a program that runs the manager: it builds no
\* hash_ring::Ring
NoRing ==
    /\ slots = << >>
    /\ capacity = 0
    /\ version = 0
    /\ build = "debug"
    /\ pc = "idle"
    /\ last = NoCall
    /\ rt = NoTrack

\* start_cache_proxy up to the spawn of manager.start()
ManagerInit ==
    /\ NoRing
    /\ manager = [pc |-> "new", ticks |-> 0, branch |-> "none",
                  result |-> "none"]
    /\ \E config \in Configs : topology = ProxyTopology_new(config)
    /\ reader = [pc |-> "idle", slot_mapping |-> None, hash_ring |-> None]
    /\ NoNodeList

\* start(): time::interval panics when the period is zero; otherwise the
\* loop is entered
Start ==
    /\ manager.pc = "new"
    /\ manager' = [manager EXCEPT
                     !.pc = IF topology.time_period = 0 THEN "panicked"
                            ELSE "select",
                     !.result = IF topology.time_period = 0 THEN "panic"
                                ELSE "none"]
    /\ UNCHANGED <<topology, reader>>
    /\ UNCHANGED ringVars
    /\ UNCHANGED listVars

\* select! takes the branch of the interval: a tick.  `ticks` counts them
\* and `branch` is the branch select! took last
SelectTick ==
    /\ manager.pc = "select"
    /\ manager.ticks < MaxTick
    /\ manager' = [manager EXCEPT !.pc = "update_metadata",
                                  !.branch = "tick",
                                  !.ticks = manager.ticks + 1]
    /\ UNCHANGED <<topology, reader>>
    /\ UNCHANGED ringVars
    /\ UNCHANGED listVars

\* `self.update_metadata().await?`: Ok goes round the loop, Err leaves
\* start with the error
UpdateMetadata(res) ==
    /\ manager.pc = "update_metadata"
    /\ manager' = [manager EXCEPT
                     !.pc = IF res = "Ok" THEN "select" ELSE "returned",
                     !.result = res]
    /\ UNCHANGED <<topology, reader>>
    /\ UNCHANGED ringVars
    /\ UNCHANGED listVars

\* select! takes the branch of normal_worker, which returns Ok(()) at once
SelectNormalWorker ==
    /\ manager.pc = "select"
    /\ manager' = [manager EXCEPT !.pc = "normal_worker",
                                  !.branch = "normal_worker"]
    /\ UNCHANGED <<topology, reader>>
    /\ UNCHANGED ringVars
    /\ UNCHANGED listVars

NormalWorker ==
    /\ manager.pc = "normal_worker"
    /\ manager' = [manager EXCEPT !.pc = "select"]
    /\ UNCHANGED <<topology, reader>>
    /\ UNCHANGED ringVars
    /\ UNCHANGED listVars

\* start_cache_proxy: an error of start() panics the manager task with
\* "Manager error", and the join of the task panics in turn
ManagerError ==
    /\ manager.pc = "returned"
    /\ manager' = [manager EXCEPT !.pc = "panicked"]
    /\ UNCHANGED <<topology, reader>>
    /\ UNCHANGED ringVars
    /\ UNCHANGED listVars

MayBorrowSharedAlways(t) == t.upd.at \in {"idle", "slot_mapping", "hash_ring"}

\* hash_ring() and slot_mapping() take &self, update_slot_mapping and init
\* take &mut self: a shared borrow exists only while no call holds the
\* topology by &mut, and the other way round
MayBorrowShared(t) == t.upd.at = "idle"

MayBorrowMut(t, r) == t.upd.at = "idle" /\ r.pc = "idle"

\* `self.slot_mapping = slot_mapping` of update_slot_mapping, called by
\* itself or from init(slot_mapping, node_list); the argument is a
\* SlotMapping made for the call
AssignSlotMapping(by, node_list) ==
    /\ MayBorrowMut(topology, reader)
    /\ topology.made < MaxUpdate
    /\ topology' = [topology EXCEPT
                      !.slot_mapping = SlotMapping_default(topology.made + 1),
                      !.made = topology.made + 1,
                      !.upd = [at |-> "slot_mapping", by |-> by,
                               node_list |-> node_list]]
    /\ UNCHANGED <<manager, reader>>
    /\ UNCHANGED ringVars
    /\ UNCHANGED listVars

UpdateSlotMapping == AssignSlotMapping("update_slot_mapping", << >>)

TopologyInit(node_list) == AssignSlotMapping("init", node_list)

\* `self.hash_ring = HashRing::new(self.slot_mapping.inner())`
AssignHashRing ==
    /\ topology.upd.at = "slot_mapping"
    /\ topology' = [topology EXCEPT
                      !.hash_ring =
                          HashRing_new(SlotMapping_inner(topology.slot_mapping)),
                      !.built_from = topology.slot_mapping.obj,
                      !.upd = IF topology.upd.by = "init"
                              THEN [topology.upd EXCEPT !.at = "hash_ring"]
                              ELSE [at |-> "idle", by |-> "none",
                                    node_list |-> << >>]]
    /\ UNCHANGED <<manager, reader>>
    /\ UNCHANGED ringVars
    /\ UNCHANGED listVars

\* update_node_list of init
UpdateNodeList ==
    /\ topology.upd.at = "hash_ring"
    /\ topology' = [topology EXCEPT
                      !.node_list = topology.upd.node_list,
                      !.upd = [at |-> "idle", by |-> "none",
                               node_list |-> << >>]]
    /\ UNCHANGED <<manager, reader>>
    /\ UNCHANGED ringVars
    /\ UNCHANGED listVars

\* a reader of the topology, as rebalancing() is: it holds the topology by
\* & from its first getter to its return
ReadSlotMapping ==
    /\ reader.pc = "idle"
    /\ MayBorrowShared(topology)
    /\ reader' = [pc |-> "slot_mapping",
                  slot_mapping |-> Some(topology.slot_mapping.obj),
                  hash_ring |-> None]
    /\ UNCHANGED <<manager, topology>>
    /\ UNCHANGED ringVars
    /\ UNCHANGED listVars

ReadHashRing ==
    /\ reader.pc = "slot_mapping"
    /\ MayBorrowShared(topology)
    /\ reader' = [reader EXCEPT
                    !.pc = "hash_ring",
                    !.hash_ring = Some([version |-> topology.hash_ring.version,
                                        built_from |-> topology.built_from])]
    /\ UNCHANGED <<manager, topology>>
    /\ UNCHANGED ringVars
    /\ UNCHANGED listVars

\* the reader returns with what it read and gives the borrow up
ReaderReturn ==
    /\ reader.pc = "hash_ring"
    /\ reader' = [reader EXCEPT !.pc = "idle"]
    /\ UNCHANGED <<manager, topology>>
    /\ UNCHANGED ringVars
    /\ UNCHANGED listVars

NextManager ==
    \/ Start
    \/ SelectTick
    \/ \E res \in update_metadata : UpdateMetadata(res)
    \/ SelectNormalWorker
    \/ NormalWorker
    \/ ManagerError
    \/ UpdateSlotMapping
    \/ \E node_list \in InitNodeLists : TopologyInit(node_list)
    \/ AssignHashRing
    \/ UpdateNodeList
    \/ ReadSlotMapping
    \/ ReadHashRing
    \/ ReaderReturn

ManagerSpec == ManagerInit /\ [][NextManager]_vars

(* ============================ NodeList ================================ *)

\* Node::new: of a node the model keeps the id, the one field that NodeList
\* looks at
Nodes == [id : NodeIds]

ListThreads == {"t1", "t2"}

\* NodeList::add pushes the node
NodeList_add(list, node) == Append(list, node)

\* NodeList::remove retains the nodes of another id
RetainOthers(list, id) == SelectSeq(list, LAMBDA n : n.id # id)

NodeList_remove(list, id) == RetainOthers(list, id)

\* NodeList::list clones the vector
NodeList_list(list) == list

\* NodeList::get: the first node of the id, cloned
NodeList_get(list, id) ==
    IF \E i \in 1..Len(list) : list[i].id = id
    THEN Some(list[CHOOSE i \in 1..Len(list) :
                     /\ list[i].id = id
                     /\ \A j \in 1..(i - 1) : list[j].id # id])
    ELSE None

\* the vector a call leaves and the value it returns, from the vector the
\* call has under its guard
NodeListEffect(op, arg, list) ==
    CASE op = "add"    -> [list |-> NodeList_add(list, arg), ret |-> None]
      [] op = "remove" -> [list |-> NodeList_remove(list, arg), ret |-> None]
      [] op = "list"   -> [list |-> list, ret |-> Some(NodeList_list(list))]
      [] op = "get"    -> [list |-> list, ret |-> NodeList_get(list, arg)]

IdleThread ==
    [pc |-> "idle", op |-> "none", arg |-> None, guard |-> None,
     ret |-> None, serial_ret |-> None]

NodeListInit ==
    /\ NoRing
    /\ manager = NoManager
    /\ topology = NoTopology
    /\ reader = NoReader
    /\ nodelist = NodeList_new
    /\ mutex = None
    /\ threads = [t \in ListThreads |-> IdleThread]
    /\ serial = NodeList_new

MutexAlwaysFree(m) == m = m

\* Mutex::lock returns the guard to one thread at a time
MutexFree(m) == m = None

\* a thread calls add, remove, list or get
ListCall(t, op, arg) ==
    /\ threads[t].pc = "idle"
    /\ op = "add" => Len(nodelist) < MaxList
    /\ threads' = [threads EXCEPT ![t] = [IdleThread EXCEPT !.pc = "lock",
                                                          !.op = op,
                                                          !.arg = arg]]
    /\ UNCHANGED <<nodelist, mutex, serial>>
    /\ UNCHANGED <<ringVars, mgrVars>>

\* self.inner.lock().unwrap(): the thread has the guard and, through it,
\* the vector
ListLock(t) ==
    /\ threads[t].pc = "lock"
    /\ MutexFree(mutex)
    /\ mutex' = Some(t)
    /\ threads' = [threads EXCEPT ![t].pc = "locked",
                                  ![t].guard = Some(nodelist)]
    /\ UNCHANGED <<nodelist, serial>>
    /\ UNCHANGED <<ringVars, mgrVars>>

\* the call works on the vector under its guard, stores the result and
\* drops the guard
ListApply(t) ==
    /\ threads[t].pc = "locked"
    /\ LET th == threads[t]
           e  == NodeListEffect(th.op, th.arg, th.guard[1])
           g  == NodeListEffect(th.op, th.arg, serial)
       IN  /\ nodelist' = e.list
           /\ serial' = g.list
           /\ threads' = [threads EXCEPT ![t].pc = "done",
                                         ![t].arg = None,
                                         ![t].guard = None,
                                         ![t].ret = e.ret,
                                         ![t].serial_ret = g.ret]
    /\ mutex' = IF mutex = Some(t) THEN None ELSE mutex
    /\ UNCHANGED <<ringVars, mgrVars>>

\* the caller has the result
ListReturn(t) ==
    /\ threads[t].pc = "done"
    /\ threads' = [threads EXCEPT ![t] = IdleThread]
    /\ UNCHANGED <<nodelist, mutex, serial>>
    /\ UNCHANGED <<ringVars, mgrVars>>

NextNodeList ==
    \/ \E t \in ListThreads, node \in Nodes : ListCall(t, "add", node)
    \/ \E t \in ListThreads, id \in NodeIds : ListCall(t, "remove", id)
    \/ \E t \in ListThreads : ListCall(t, "list", None)
    \/ \E t \in ListThreads, id \in NodeIds : ListCall(t, "get", id)
    \/ \E t \in ListThreads : ListLock(t)
    \/ \E t \in ListThreads : ListApply(t)
    \/ \E t \in ListThreads : ListReturn(t)

NodeListSpec == NodeListInit /\ [][NextNodeList]_vars

(* ============================ properties ============================== *)

\* the structural invariants of a ring: sorted, non-empty slots that cover
\* [1, cap] with no gap and no overlap
RingInv(sl, cap) ==
    sl # << >> =>
        /\ SortedByStart(sl)
        /\ \A i \in 1..Len(sl) : sl[i].start <= sl[i].end
        /\ sl[1].start = 1
        /\ sl[Len(sl)].end = cap
        /\ \A i \in 1..(Len(sl) - 1) : sl[i].end + 1 = sl[i + 1].start

Contains(s, p) == s.start <= p /\ p <= s.end

SlotSize(s) == s.end - s.start + 1

Owners(sl) == [i \in 1..Len(sl) |-> sl[i].inner]

\* the equal partition of [1, cap]: slot i (0-based) is [1 + i*q, (i+1)*q]
\* with q = floor(cap / k), but the last slot ends at cap
Balanced(sl, cap) ==
    sl # << >> =>
        LET k == Len(sl)
            q == cap \div k
        IN  /\ k <= cap
            /\ \A i \in 1..k :
                  /\ sl[i].start = 1 + (i - 1) * q
                  /\ sl[i].end = IF i = k THEN cap ELSE i * q

\* the owners of every point of [1, cap]
OwnerMap(sl, cap) ==
    [p \in 1..cap |-> {sl[i].inner : i \in {j \in 1..Len(sl) : Contains(sl[j], p)}}]

OwnsNone(sl, node) == \A i \in 1..Len(sl) : sl[i].inner # node

\* C1: in every ring state reached by the ring operations, a non-empty slot
\* list is sorted by start, has start <= end in every slot, starts at 1, ends
\* at capacity and has slots[i].end + 1 = slots[i+1].start throughout.
C1_RingInvariant == pc \in {"idle", "done"} => RingInv(slots, capacity)

\* the point of [1, capacity] the code looks up for a hash h: h mod capacity,
\* with 0 standing for capacity (the wrap to the last slot)
WrappedIndex(h, cap) == IF h % cap = 0 THEN cap ELSE h % cap

\* get_slot has returned the one slot of the ring that contains point p
ReturnsSlotOf(ret, sl, p) ==
    \E i \in 1..Len(sl) :
        /\ Contains(sl[i], p)
        /\ \A j \in 1..Len(sl) : Contains(sl[j], p) => j = i
        /\ ret = Some(sl[i])

\* C2 (as amended): on a non-empty ring satisfying the structural
\* invariants, get_slot returns the unique slot whose range contains
\* h mod capacity, or the last slot (the one containing capacity) when
\* h mod capacity is 0.
C2_GetSlotOwnsWrappedIndex ==
    [][\A h \in Hashes :
          (last'.op = "get_slot" /\ GetSlot(h) /\ slots # << >> /\ RingInv(slots, capacity))
              => ReturnsSlotOf(last'.slot, slots, WrappedIndex(h, capacity))]_vars

\* C2 (as claimed): get_slot returns the unique slot whose range contains
\* (h mod capacity) + 1.
C2_GetSlotOwnsIndexPlusOne ==
    [][\A h \in Hashes :
          (last'.op = "get_slot" /\ GetSlot(h) /\ slots # << >> /\ RingInv(slots, capacity))
              => ReturnsSlotOf(last'.slot, slots, (h % capacity) + 1)]_vars

C2_Witness ==
    /\ last.op = "get_slot"
    /\ Len(slots) >= 2
    /\ RingInv(slots, capacity)
    /\ last.slot = Some(slots[1])
    /\ SlotSize(slots[1]) >= 2

\* C3: add(node, must=true) on a non-empty ring with slots.len() < capacity
\* terminates: the expansion loop it enters is left after finitely many
\* expand steps.
C3_AddMustLeavesLoop == (pc = "add_loop") ~> (pc # "add_loop")

MaxSlotSize(sl) ==
    CHOOSE m \in {SlotSize(sl[i]) : i \in 1..Len(sl)} :
        \A i \in 1..Len(sl) : SlotSize(sl[i]) <= m

MinSlotSize(sl) ==
    CHOOSE m \in {SlotSize(sl[i]) : i \in 1..Len(sl)} :
        \A i \in 1..Len(sl) : SlotSize(sl[i]) >= m

AfterRebalance ==
    pc = "done" /\ last.op = "rebalance" /\ last.ok /\ Len(slots) <= capacity

\* C4 (as amended): after rebalance() returns true on k >= 1 slots with
\* capacity >= k, every slot but the last has size floor(capacity / k) and
\* the last takes the remainder, so the largest size minus the smallest is
\* exactly capacity mod k.
C4_RebalanceSpreadIsRemainder ==
    AfterRebalance =>
        /\ \A i \in 1..(Len(slots) - 1) :
              SlotSize(slots[i]) = capacity \div Len(slots)
        /\ MaxSlotSize(slots) - MinSlotSize(slots) = capacity % Len(slots)

\* C4 (as claimed): after rebalance() returns true the largest slot size
\* minus the smallest is at most 1.
C4_RebalanceSpreadAtMostOne ==
    AfterRebalance => MaxSlotSize(slots) - MinSlotSize(slots) <= 1

C4_Witness == AfterRebalance /\ Len(slots) >= 2 /\ capacity % Len(slots) >= 1

VersionedOps ==
    {"add", "batch_add", "remove", "remove_by_index", "batch_remove",
     "rebalance", "expand"}

\* a call of one of the operations ops has run from start to return and has
\* changed the slot list or the capacity
ChangingCall(ops) ==
    /\ pc = "idle"
    /\ pc' = "done"
    /\ last'.op \in ops
    /\ slots' # slots \/ capacity' # capacity

\* C5 (as amended): a call of add, batch_add, remove, remove_by_index,
\* batch_remove, rebalance or expand that changes the slot list or the
\* capacity leaves version strictly greater than it found it (slots_clear
\* changes the slot list and keeps the version).
C5_VersionGrowsOnChange ==
    [][ChangingCall(VersionedOps) => version' > version]_vars

\* C5 (as claimed): the same for every public operation, slots_clear
\* included.
C5_VersionGrowsOnAnyChange ==
    [][ChangingCall(VersionedOps \cup {"slots_clear"}) => version' > version]_vars

C5_Witness ==
    pc = "done" /\ last.op = "remove_by_index" /\ last.ret # None /\ version >= 2

Distinct(seq) ==
    \A i \in 1..Len(seq) : \A j \in (i + 1)..Len(seq) : ~SlotEq(seq[i], seq[j])

\* C6: on a non-empty ring, get_replicas(key, n) returns, for every hash and
\* every n >= 0, a list of exactly min(n, slots.len()) pairwise distinct
\* slots.
C6_ReplicasCountAndDistinct ==
    [][\A h \in Hashes, n \in 0..(MaxSlots + 1) :
          (last'.op = "get_replicas" /\ GetReplicas(h, n) /\ slots # << >>
               /\ RingInv(slots, capacity))
              => /\ last'.out = "returned"
                 /\ last'.reps # None
                 /\ Len(last'.reps[1]) = Min(n, Len(slots))
                 /\ Distinct(last'.reps[1])]_vars

\* the add(x, false); remove(x, false); rebalance() sequence has just ended
RoundTripDone == rt.stage = 3 /\ pc = "done"

MappingRestored ==
    capacity = rt.capacity /\ OwnerMap(slots, capacity) = OwnerMap(rt.slots, rt.capacity)

ExpandReturnedTrue == pc = "idle" /\ pc' = "done" /\ last'.op = "expand" /\ last'.ok

\* C8: when expand() returns true the capacity has exactly doubled, the slot
\* count, order and owners are as before, the slots are the equal partition
\* of [1, new capacity] and version has grown by exactly 1.
C8_ExpandDoublesAndRelays ==
    [][ExpandReturnedTrue =>
          /\ slots # << >>
          /\ capacity' = 2 * capacity
          /\ Len(slots') = Len(slots)
          /\ Owners(slots') = Owners(slots)
          /\ Balanced(slots', capacity')
          /\ RingInv(slots', capacity')
          /\ version' = version + 1]_vars

C8_Witness ==
    /\ pc = "done"
    /\ last.op = "expand"
    /\ last.ok
    /\ Len(slots) >= 3
    /\ capacity % Len(slots) # 0

ExpandCalled == pc = "idle" /\ last'.op = "expand" /\ slots # << >>

\* C9 (as amended): expand() on a non-empty ring whose capacity is greater
\* than floor(MAX / 2) returns false and does not change capacity; at exactly
\* floor(MAX / 2) the doubling still fits and expand succeeds with capacity
\* MAX - 1.
C9_ExpandFailsAboveHalf ==
    [][ExpandCalled =>
          /\ capacity > MaxU \div 2 => (~last'.ok /\ capacity' = capacity)
          /\ capacity = MaxU \div 2 => (last'.ok /\ capacity' = MaxU - 1)]_vars

\* C9 (as claimed): expand() on a non-empty ring whose capacity equals
\* floor(MAX / 2) returns false and does not change capacity.
C9_ExpandFailsAtHalf ==
    [][(ExpandCalled /\ capacity = MaxU \div 2)
          => (~last'.ok /\ capacity' = capacity)]_vars

C9_Witness ==
    /\ pc = "done"
    /\ last.op = "expand"
    /\ ~last.ok
    /\ slots # << >>
    /\ capacity > MaxU \div 2

\* C10: add(node, must=true) returns absent only when an expansion or a
\* rebalance it attempted has failed.
C10_AddMustAbsentOnlyOnFailure ==
    (pc = "done" /\ last.op = "add" /\ last.must /\ last.ret = None) => last.failed


\* add(node, false) is called on a ring with slots.len() == capacity
AddOnFullRing ==
    pc = "idle" /\ last'.op = "add" /\ ~last'.must /\ Len(slots) = capacity

\* C11: add(node, must=false) on a ring with slots.len() == capacity returns
\* absent and leaves the slot list, the capacity and the version as they
\* were.
C11_AddOnFullRingIsNoOp ==
    [][AddOnFullRing =>
          /\ pc' = "done"
          /\ last'.ret = None
          /\ slots' = slots
          /\ capacity' = capacity
          /\ version' = version]_vars

C11_Witness ==
    /\ pc = "done"
    /\ last.op = "add"
    /\ ~last.must
    /\ last.ret = None
    /\ Len(slots) = capacity
    /\ version >= 2


\* a call is made on a ring without slots
CallOnEmptyRing == pc = "idle" /\ slots = << >>

RingUnchanged == slots' = slots /\ capacity' = capacity /\ version' = version

\* C12: on an empty ring, get_slot, get_node and get_replicas return absent
\* for every key and every n, and rebalance() and expand() return false and
\* leave the slot list, the capacity and the version as they were.
C12_EmptyRingAbsentAndFalse ==
    [][CallOnEmptyRing =>
          /\ last'.op \in LookupOps =>
                /\ pc' = "done"
                /\ last'.slot = None /\ last'.ret = None /\ last'.reps = None
                /\ RingUnchanged
          /\ last'.op \in {"rebalance", "expand"} =>
                /\ pc' = "done"
                /\ ~last'.ok
                /\ RingUnchanged]_vars

C12_Witness ==
    /\ pc = "done"
    /\ slots = << >>
    /\ version >= 1
    /\ \/ last.op = "get_replicas" /\ last.reps = None
       \/ last.op = "rebalance" /\ ~last.ok


\* a call of add, remove_by_index or batch_remove has returned absent after
\* the rebalance it ran returned false
AbsentAfterFailedRebalance ==
    /\ pc = "idle"
    /\ pc' = "done"
    /\ last'.op \in {"add", "remove_by_index", "batch_remove"}
    /\ last'.failed
    /\ last'.ret = None
    /\ last'.rets = None

\* C13: whenever add, remove_by_index or batch_remove returns absent because
\* the rebalance it ran failed, the mutation is rolled back: the slot list
\* and the capacity after the call equal those before the call.
C13_FailedRebalanceRollsBack ==
    [][AbsentAfterFailedRebalance => (slots' = slots /\ capacity' = capacity)]_vars


\* the number of slots of sl that node owns
OwnerCount(sl, node) == Cardinality({i \in 1..Len(sl) : sl[i].inner = node})

\* the nodes of a list
Listed(nodes) == {nodes[i] : i \in 1..Len(nodes)}

\* C14: for every node list given to batch_remove(nodes, must), lists with
\* repeated ids and with ids not in the ring included, every slot that the
\* call removes was owned by a node of the list and the returned list holds
\* only nodes of the list.
C14_BatchRemoveOnlyListed ==
    [][(pc = "idle" /\ last'.op = "batch_remove") =>
          /\ \A node \in NodeIds \ Listed(last'.nodes) :
                OwnerCount(slots', node) = OwnerCount(slots, node)
          /\ last'.rets # None =>
                Listed(last'.rets[1]) \subseteq Listed(last'.nodes)]_vars


\* every slot of sl is found in sl2 with the start and the owner it has in sl
StartsKept(sl, sl2) ==
    \A i \in 1..Len(sl) :
        \E j \in 1..Len(sl2) :
            sl2[j].start = sl[i].start /\ sl2[j].inner = sl[i].inner

\* batch_add(nodes, must) is called with a non-empty list that fits
BatchAddThatFits ==
    /\ pc = "idle"
    /\ last'.op = "batch_add"
    /\ last'.nodes # << >>
    /\ Len(slots) + Len(last'.nodes) <= capacity

\* C15: batch_add(nodes, must=true) with a non-empty node list and
\* slots.len() + |nodes| <= capacity places every node (it returns all of
\* them and slots.len() grows by |nodes|), leaves capacity unchanged,
\* increases version by exactly |nodes| + 1 and leaves the slots laid out as
\* the equal partition of [1, capacity]; with must=false it increases
\* version by exactly |nodes| and does not rebalance.
C15_BatchAddPlacesAll ==
    [][BatchAddThatFits =>
          /\ pc' = "done"
          /\ last'.rets = Some(last'.nodes)
          /\ Len(slots') = Len(slots) + Len(last'.nodes)
          /\ capacity' = capacity
          /\ last'.must => /\ version' = version + Len(last'.nodes) + 1
                           /\ Balanced(slots', capacity')
          /\ ~last'.must => /\ version' = version + Len(last'.nodes)
                            /\ StartsKept(slots, slots')]_vars


\* the nodes of a list are pairwise distinct
DistinctNodes(nodes) ==
    \A i \in 1..Len(nodes) : \A j \in (i + 1)..Len(nodes) : nodes[i] # nodes[j]

\* the owners that are not in the set S, in their order
RECURSIVE OwnersOutside(_, _)
OwnersOutside(owners, S) ==
    IF owners = << >> THEN << >>
    ELSE IF Head(owners) \in S THEN OwnersOutside(Tail(owners), S)
    ELSE << Head(owners) >> \o OwnersOutside(Tail(owners), S)

\* batch_remove(nodes, true) is called with pairwise distinct nodes that
\* each own a slot, and fewer nodes than the ring has slots
BatchRemoveOfOwners ==
    /\ pc = "idle"
    /\ last'.op = "batch_remove"
    /\ last'.must
    /\ DistinctNodes(last'.nodes)
    /\ \A i \in 1..Len(last'.nodes) : OwnerCount(slots, last'.nodes[i]) >= 1
    /\ Len(last'.nodes) < Len(slots)

\* C16: batch_remove(nodes, must=true) with pairwise distinct nodes that each
\* own a slot, leaving at least one slot in the ring, removes exactly those
\* nodes' slots, returns exactly those nodes, keeps the relative order and
\* the owners of the remaining slots, re-lays them as the equal partition of
\* [1, capacity], leaves capacity unchanged and increases version by exactly
\* |nodes| + 1.
C16_BatchRemoveRemovesAndRelays ==
    [][BatchRemoveOfOwners =>
          /\ pc' = "done"
          /\ last'.rets # None
          /\ Len(last'.rets[1]) = Len(last'.nodes)
          /\ Listed(last'.rets[1]) = Listed(last'.nodes)
          /\ Owners(slots') = OwnersOutside(Owners(slots), Listed(last'.nodes))
          /\ slots' # << >>
          /\ Balanced(slots', capacity')
          /\ capacity' = capacity
          /\ version' = version + Len(last'.nodes) + 1]_vars


(* ------------------------------- C17 ---------------------------------- *)

AddAfterClear ==
    /\ pc = "idle"
    /\ rt.cleared
    /\ rt.stage = 0
    /\ last'.op = "add"
    /\ ~last'.must

FirstSlotCreated ==
    /\ pc' = "done"
    /\ last'.ret = Some(last'.node)
    /\ slots' = <<Slot(1, capacity, last'.node)>>
    /\ capacity' = capacity

ClearEmptiesOnly ==
    (pc = "idle" /\ last'.op = "slots_clear")
        => (pc' = "done" /\ slots' = << >> /\ version' = version
            /\ capacity' = capacity)

\* C17 as stated: slots_clear empties the slot list and leaves version and
\* capacity as they were, and the add(node, false) that follows it creates
\* the single slot [1, capacity] of the node, whatever the capacity
C17_ClearThenAddMakesFirstSlot ==
    [][ClearEmptiesOnly /\ (AddAfterClear => FirstSlotCreated)]_vars

\* C17, amended: slots_clear empties the slot list and leaves version and
\* capacity as they were; on a ring of capacity at least 1 the
\* add(node, false) that follows it creates the single slot [1, capacity] of
\* the node, and on a ring of capacity 0 it returns absent and changes nothing
C17_ClearThenAddMakesFirstSlotIfRoom ==
    [][/\ ClearEmptiesOnly
       /\ (AddAfterClear /\ capacity >= 1) => FirstSlotCreated
       /\ (AddAfterClear /\ capacity = 0)
            => (pc' = "done" /\ last'.ret = None /\ RingUnchanged)]_vars

C17_Witness ==
    /\ pc = "done"
    /\ last.op = "add"
    /\ rt.stage = 1
    /\ rt.cleared
    /\ version >= 3
    /\ slots = <<Slot(1, capacity, last.node)>>


(* ------------------------------- C18 ---------------------------------- *)

UpdateMetadataFailed ==
    /\ manager.pc = "update_metadata"
    /\ manager'.pc # "update_metadata"
    /\ manager'.result = "Err"

HashRingPublished ==
    /\ topology.upd.at = "slot_mapping"
    /\ topology'.upd.at # "slot_mapping"

\* C19: the topology that update_slot_mapping or init publishes carries a
\* hash_ring().version() strictly greater than that of the topology it
\* replaces
C19_PublishedVersionGrows ==
    [][HashRingPublished
         => topology'.hash_ring.version > topology.hash_ring.version]_vars

(* ------------------------------- C20 ---------------------------------- *)

\* C20: a reader that has obtained slot_mapping() and hash_ring() holds a
\* hash ring that was built from the slot mapping it holds, and no reader
\* is between its two getters while update_slot_mapping or init is between
\* its assignments
C20_ReaderSeesOneTopology ==
    /\ reader.hash_ring # None
         => reader.hash_ring[1].built_from = reader.slot_mapping[1]
    /\ topology.upd.at # "idle" => reader.pc = "idle"

\* a reader holds the slot mapping and the hash ring of the topology that
\* the second update published
C20_Witness ==
    /\ reader.pc = "hash_ring"
    /\ reader.slot_mapping = Some(topology.slot_mapping.obj)
    /\ reader.hash_ring[1].built_from >= 2
    /\ topology.made >= 2


(* ------------------------------- C21 ---------------------------------- *)

UniqueIds(list) ==
    \A i, j \in 1..Len(list) : i # j => list[i].id # list[j].id

\* C21: after any sequence of add and remove calls on a NodeList, the vector
\* that list() returns holds at most one node of each id
C21_ListHasUniqueIds ==
    \A t \in DOMAIN threads :
        (threads[t].pc = "done" /\ threads[t].op = "list")
            => UniqueIds(threads[t].ret[1])

(* ------------------------------- C22 ---------------------------------- *)

\* a vector that a call has returned stays as it is while its caller has it
ReturnedKept ==
    \A t \in DOMAIN threads :
        (threads[t].pc = "done" /\ threads'[t].pc = "done")
            => threads'[t].ret = threads[t].ret

\* C22: with add, remove, get and list called from several threads at once,
\* the vector is at every moment the one that the calls give when applied
\* whole in the order in which they took the mutex, every result of list and
\* get is the one of that serial order, and a returned vector is not changed
\* by later calls
C22_CallsAreAtomic ==
    [][/\ nodelist' = serial'
       /\ \A t \in DOMAIN threads' :
              threads'[t].pc = "done"
                  => threads'[t].ret = threads'[t].serial_ret
       /\ ReturnedKept]_vars

\* one thread holds a vector it got from list() that later calls have left
\* behind, while the other thread holds the mutex for a remove
C22_Witness ==
    /\ threads # << >>
    /\ \E t, u \in DOMAIN threads :
          /\ t # u
          /\ threads[t].pc = "done"
          /\ threads[t].op = "list"
          /\ threads[t].ret # Some(nodelist)
          /\ Len(nodelist) = MaxList
          /\ threads[u].pc = "locked"
          /\ threads[u].op = "remove"


(* ------------------------------- C23 ---------------------------------- *)

\* C23: the slot mapping that ProxyTopology::new(config) creates, and the
\* hash ring built from it, have exactly config.slot_size slots
C23_NewTopologyHasSlotSizeSlots ==
    (topology # NoTopology /\ topology.made = 0 /\ topology.slot_size >= 1)
        => /\ Len(SlotMapping_inner(topology.slot_mapping)) = topology.slot_size
           /\ Cardinality(topology.hash_ring.inner) = topology.slot_size


(* ------------------------------- C24 ---------------------------------- *)

\* add(node, false) is called on a non-empty ring with room
AddToRingWithRoom ==
    /\ pc = "idle"
    /\ last'.op = "add"
    /\ ~last'.must
    /\ slots # << >>
    /\ Len(slots) < capacity

MaximalRange(sl, i) ==
    \A j \in 1..Len(sl) : sl[j].end - sl[j].start <= sl[i].end - sl[i].start

\* the slot list sl with slot i split at the middle of its range, the upper
\* half going to node
SplitAt(sl, i, node) ==
    LET mid == (sl[i].start + sl[i].end) \div 2
    IN  SubSeq(sl, 1, i - 1)
          \o <<Slot(sl[i].start, mid, sl[i].inner), Slot(mid + 1, sl[i].end, node)>>
          \o SubSeq(sl, i + 1, Len(sl))

SplitsOneMaximalSlot ==
    /\ pc' = "done"
    /\ last'.ret = Some(last'.node)
    /\ \E i \in 1..Len(slots) :
          /\ MaximalRange(slots, i)
          /\ slots' = SplitAt(slots, i, last'.node)
    /\ capacity' = capacity
    /\ version' = version + 1

\* C24: add(node, false) on a non-empty ring with slots.len() < capacity
\* returns the node and replaces one slot [s, e] of maximal range by [s, mid]
\* of the same owner followed by [mid + 1, e] of the new node, with
\* mid = floor((s + e) / 2); the other slots and the capacity stay and the
\* version grows by 1
C24_AddSplitsMaximalSlot ==
    [][AddToRingWithRoom => SplitsOneMaximalSlot]_vars


(* ------------------------------- C25 ---------------------------------- *)

LowestMaximal(sl) ==
    CHOOSE i \in 1..Len(sl) :
        /\ MaximalRange(sl, i)
        /\ \A j \in 1..(i - 1) : ~MaximalRange(sl, j)

\* slot i of sl is the one that was split to give sl2: the slots before it
\* are as they were, the slots after it have moved up by one, and its range
\* is shared by the slots i and i + 1 of sl2
SplitIsAt(sl, sl2, i) ==
    /\ Len(sl2) = Len(sl) + 1
    /\ \A j \in 1..(i - 1) : sl2[j] = sl[j]
    /\ \A j \in (i + 1)..Len(sl) : sl2[j + 1] = sl[j]
    /\ sl2[i].start = sl[i].start
    /\ sl2[i + 1].end = sl[i].end

\* an add(node, false) that splits a slot of a ring whose slots all have
\* start <= end
AddSplitsSlot ==
    /\ AddToRingWithRoom
    /\ pc' = "done"
    /\ last'.ret # None
    /\ \A j \in 1..Len(slots) : slots[j].start <= slots[j].end

\* C25: when several slots share the largest range, add splits the one of
\* the lowest index among them
C25_AddSplitsLowestMaximal ==
    [][AddSplitsSlot => SplitIsAt(slots, slots', LowestMaximal(slots))]_vars


(* ------------------------------- C26 ---------------------------------- *)

\* remove(node, false) is called for a node that owns a slot
RemoveOfOwner ==
    /\ pc = "idle"
    /\ last'.op = "remove"
    /\ ~last'.must
    /\ Position(slots, last'.node) # None

\* sl without its slot i (counted from 1), whose range went to the
\* predecessor's end or, for the first slot, to the new head's start
RemovedAndMerged(sl, i) ==
    LET rest == SubSeq(sl, 1, i - 1) \o SubSeq(sl, i + 1, Len(sl))
    IN  IF i > 1 THEN [rest EXCEPT ![i - 1].end = sl[i].end]
        ELSE IF rest # << >> THEN [rest EXCEPT ![1].start = sl[1].start]
        ELSE << >>

\* C26: remove(node, false) of a node that owns the slot at index i removes
\* that slot and returns the node, increases the version by 1 and leaves the
\* capacity; the removed range goes to the predecessor's end when i > 0 and
\* to the new head's start when i = 0 and slots remain, all other slots
\* staying as they were; a sole survivor of a ring that covered
\* [1, capacity] covers [1, capacity], and the removal of the final slot
\* leaves the ring empty
C26_RemoveMergesIntoOneNeighbour ==
    [][RemoveOfOwner =>
         /\ pc' = "done"
         /\ last'.ret = Some(last'.node)
         /\ version' = version + 1
         /\ capacity' = capacity
         /\ slots' = RemovedAndMerged(slots, Position(slots, last'.node)[1] + 1)
         /\ Len(slots) = 1 => slots' = << >>
         /\ (Len(slots) = 2 /\ RingInv(slots, capacity))
              => (slots'[1].start = 1 /\ slots'[1].end = capacity)]_vars

\* a slot was removed from a ring of three: the two slots left cover the
\* ring, unevenly, and neither is owned by the removed node
C26_Witness ==
    /\ pc = "done"
    /\ last.op = "remove"
    /\ ~last.must
    /\ last.ret = Some(last.node)
    /\ Len(slots) = 2
    /\ RingInv(slots, capacity)
    /\ slots[1].end - slots[1].start > slots[2].end - slots[2].start + 1
    /\ \A j \in 1..2 : slots[j].inner # last.node


(* ------------------------------- C27 ---------------------------------- *)

RebalanceOfSlots ==
    /\ pc = "idle"
    /\ last'.op = "rebalance"
    /\ slots # << >>

\* the slots of sl laid out in equal parts of [1, cap], the last one ending
\* at cap
EqualParts(sl, cap) ==
    LET k == Len(sl)
        q == cap \div k
    IN  [i \in 1..k |->
            Slot(1 + (i - 1) * q, IF i = k THEN cap ELSE i * q, sl[i].inner)]

\* C27: rebalance() on a ring of k >= 1 slots returns true, increases the
\* version by 1, keeps the capacity, the number, order and owners of the
\* slots, and sets slot i (from 0) to [1 + i*q, (i+1)*q] with
\* q = floor(capacity / k), the last slot ending at capacity
C27_RebalanceLaysOutEqualParts ==
    [][RebalanceOfSlots =>
         /\ pc' = "done"
         /\ last'.ok
         /\ version' = version + 1
         /\ capacity' = capacity
         /\ slots' = EqualParts(slots, capacity)]_vars


(* ------------------------------- C28 ---------------------------------- *)

\* reps is slot p of sl followed by its successors in slot order, going
\* from the last slot on to the first
SuccessorsFrom(sl, p, reps) ==
    \A k \in 1..Len(reps) : reps[k] = sl[((p + k - 2) % Len(sl)) + 1]

\* C28: for every key and every n >= 1 on a non-empty ring, the first slot
\* that get_replicas(key, n) returns is the slot that get_slot(key) returns,
\* and the slots after it are its successors in slot order, wrapping from
\* the last slot to the first
C28_ReplicasStartAtGetSlot ==
    [][\A h \in Hashes, n \in 1..(MaxSlots + 1) :
          (last'.op = "get_replicas" /\ GetReplicas(h, n) /\ slots # << >>
               /\ RingInv(slots, capacity))
              => /\ last'.out = "returned"
                 /\ last'.reps # None
                 /\ last'.reps[1] # << >>
                 /\ \E s \in get_slot(cur, h) : \E p \in 1..Len(slots) :
                       /\ s = Some(slots[p])
                       /\ SuccessorsFrom(slots, p, last'.reps[1])]_vars


(* ------------------------------- C29 ---------------------------------- *)

\* expand() is called on a non-empty ring whose doubled capacity does not
\* fit the capacity type
ExpandThatOverflows ==
    /\ pc = "idle"
    /\ last'.op = "expand"
    /\ slots # << >>
    /\ 2 * capacity > MaxU

\* C29: when doubling the capacity would overflow, expand() on a non-empty
\* ring returns false and leaves the capacity, the slot list and the version
\* as they were
C29_FailedExpandChangesNothing ==
    [][ExpandThatOverflows => (pc' = "done" /\ ~last'.ok /\ RingUnchanged)]_vars


(* ------------------------------- C30 ---------------------------------- *)

\* a batch_add that returns, on a ring of capacity 1 or more
BatchAddReturns ==
    /\ pc = "idle"
    /\ last'.op = "batch_add"
    /\ pc' = "done"
    /\ capacity >= 1

\* C30: batch_add(nodes, must) returns absent exactly when
\* slots.len() + |nodes| > capacity and must = false, and then leaves the
\* slot list, the capacity and the version as they were; with must = true it
\* does not return absent for lack of capacity
C30_BatchAddAbsentOnlyWithoutMust ==
    [][BatchAddReturns =>
         /\ last'.rets = None
              <=> (Len(slots) + Len(last'.nodes) > capacity /\ ~last'.must)
         /\ last'.rets = None => RingUnchanged]_vars


(* ------------------------------- C31 ---------------------------------- *)

\* remove(node, must) is called for a node that owns no slot
RemoveOfStranger ==
    /\ pc = "idle"
    /\ last'.op = "remove"
    /\ OwnerCount(slots, last'.node) = 0

\* C31: remove(node, must) for a node that owns no slot returns absent and
\* leaves the slot list, the capacity and the version as they were, for
\* either value of must
C31_RemoveOfStrangerIsNoOp ==
    [][RemoveOfStranger
         => (pc' = "done" /\ last'.ret = None /\ RingUnchanged)]_vars

\* remove(node, true) has returned absent on a ring of two slots of another
\* node
C31_Witness ==
    /\ pc = "done"
    /\ last.op = "remove"
    /\ last.must
    /\ last.ret = None
    /\ Len(slots) = 2
    /\ OwnerCount(slots, last.node) = 0
    /\ version = 2


(* ------------------------------- C32 ---------------------------------- *)

\* remove_by_index(i, must) is called with i >= slots.len()
RemoveByIndexOutOfRange ==
    /\ pc = "idle"
    /\ last'.op = "remove_by_index"
    /\ last'.index >= Len(slots)

\* C32: remove_by_index(i, must) with i >= slots.len() returns absent and
\* leaves the slot list, the capacity and the version as they were
C32_OutOfRangeIndexIsNoOp ==
    [][RemoveByIndexOutOfRange
         => (pc' = "done" /\ last'.ret = None /\ RingUnchanged)]_vars

\* what remove_by_index does keep on an index out of range: it returns
\* absent with the slot list and the capacity as they were
C32_OutOfRangeIndexKeepsSlots ==
    [][(RemoveByIndexOutOfRange /\ version < MaxU)
         => (/\ pc' = "done"
             /\ last'.ret = None
             /\ slots' = slots
             /\ capacity' = capacity
             /\ version' = version + 1)]_vars


(* ------------------------------- C33 ---------------------------------- *)

\* remove(x, must) has returned x
RemoveReturnedNode ==
    /\ pc = "done"
    /\ last.op = "remove"
    /\ last.ret = Some(last.node)

\* C33: after remove(x, must) returns x no slot of the ring is owned by x;
\* equivalently, whatever add and batch_add calls were made, calls that
\* repeat a node id included, each node owns at most one slot
C33_RemoveLeavesNoSlotOfNode ==
    /\ RemoveReturnedNode => OwnerCount(slots, last.node) = 0
    /\ \A node \in NodeIds : OwnerCount(slots, node) <= 1

\* what remove does do: it takes away one slot, the first one of the node
C33_RemoveTakesOneSlot ==
    [][(pc = "idle" /\ last'.op = "remove" /\ pc' = "done"
          /\ last'.ret = Some(last'.node))
         => (/\ Len(slots') = Len(slots) - 1
             /\ OwnerCount(slots', last'.node)
                  = OwnerCount(slots, last'.node) - 1)]_vars


(* ------------------------------- C34 ---------------------------------- *)

\* remove(x, false) is called right after such an add(x, false) has returned
RemoveAfterAdd ==
    /\ pc = "idle"
    /\ rt.stage = 1
    /\ rt'.stage = 2
    /\ Len(rt.slots) < rt.capacity
    /\ OwnsNone(rt.slots, rt.x)

\* the ring is the one the add started from, two versions later
RingRestored ==
    /\ slots = rt.slots
    /\ capacity = rt.capacity
    /\ version = rt.version + 2

====
